---- MODULE Spec2Model ----
(***************************************************************************)
(* Seat booking over a PostgreSQL store: the booking handler               *)
(* (backend/src/routes/booking.js, POST /booking/:showId) and the expiry   *)
(* job (backend/src/jobs/expireBookings.js), with the store's row locks    *)
(* and snapshot isolation as the statements of the two handlers use them.  *)
(*                                                                         *)
(* The committed state of the store is `seats`, `bookings`, `bookingSeq`;  *)
(* each handler's open transaction keeps its own uncommitted writes        *)
(* (wseats, wbooking) which COMMIT installs and ROLLBACK discards.         *)
(* Every handler runs on a pooled client of its own (the pool holds 20     *)
(* clients, more than the handlers modelled here) and returns it before    *)
(* the 30 s checkout timer of getClient runs out.                          *)
(*                                                                         *)
(* The expiry job's statements after its scan (SweepMark, SweepRelease,    *)
(* SweepCommit) are enabled only once SweepScan has found an expired       *)
(* PENDING row; Spec and SpecNoFault start from the migrated schema, where *)
(* the scan is the job's only step that can be taken.                      *)
(***************************************************************************)
EXTENDS Integers, Sequences, FiniteSets, TLC

\* ---------------------------------------------------------------- bounds
NumShows == 2
SeatsFirstShow == 2
SeatsOtherShows == 1
MaxReq == 2
MaxSweep == 2
MaxLen == 2
MaxTime == 1
MaxFaults == 1
MaxStaged == 2
MaxStagedReq == 1
MaxAdmin == 2
MaxClients == 2
MaxNewSeats == 2
MaxHolders == 2
MaxFirstId == 3
MaxGridSeats == 3

\* ------------------------------------------------------ program constants
MaxSeatsPerBooking == 10
ExpiryMinutes == 2
MaxTotalSeats == 1000

\* ------------------------------------------------------------ the schema
Shows == 1..NumShows
\* shows.total_seats: the shows need not have the same number of seats
total_seats(sh) == IF sh = 1 THEN SeatsFirstShow ELSE SeatsOtherShows
SeatIds == 1..(SeatsFirstShow + (NumShows - 1) * SeatsOtherShows)
Reqs == 1..MaxReq
Sweeps == (MaxReq + 1)..(MaxReq + MaxSweep)
NoTxn == 0
Admins == 1..MaxAdmin
\* the clients of the pool (its max stands bounded by MaxClients)
Clients == 1..MaxClients
NoClient == 0
\* the callers of getClient: booking handlers and expiry jobs
Holders == 1..MaxHolders
\* a connection outside any transaction block
NoTx == [state |-> "none", shows |-> {}, seats |-> {}]

\* seats are inserted show by show with generate_series(1, N): ids are serial
show_id(s) ==
  IF s <= SeatsFirstShow THEN 1 ELSE 2 + ((s - SeatsFirstShow - 1) \div SeatsOtherShows)
seat_number(s) ==
  IF s <= SeatsFirstShow THEN s ELSE 1 + ((s - SeatsFirstShow - 1) % SeatsOtherShows)

\* the seat_ids arrays a client sends: every short one, and one of 11 entries
ShortLists == UNION {[1..n -> SeatIds] : n \in 0..MaxLen}
LongLists == {[i \in 1..(MaxSeatsPerBooking + 1) |-> 1 + (i % Cardinality(SeatIds))]}
SeatLists == ShortLists \cup LongLists

Range(f) == {f[i] : i \in DOMAIN f}

NoResp == [status |-> 0, error |-> "none", booking_id |-> 0,
           seat_ids |-> <<>>, unavailable_seats |-> <<>>]

\* no lookup has been answered yet
NoLookup == [op |-> "none", status |-> 0, data |-> {}]

\* SeatGrid before any booking: no response, useState(null) for the message
NoResponse == [success |-> FALSE, error |-> "none", unavailable_seats |-> <<>>]
NoMessage == [type |-> "none", text |-> "none", seats |-> <<>>]

\* SQL NULL in a TIMESTAMP column
Null == -1

NoRow == [id |-> 0, show_id |-> 0, seat_ids |-> <<>>, user_email |-> 0,
          status |-> "NONE", expires_at |-> 0, confirmed |-> FALSE]

VARIABLES
  seats,       \* committed seat rows: [status, ver, writer]
  bookings,    \* committed booking rows (a set of records)
  bookingSeq,  \* the bookings_id_seq serial (not transactional)
  lock,        \* seat id -> transaction holding its row lock, or NoTxn
  pc,          \* position of each booking handler
  input,       \* [showId, seat_ids, started] of each booking request
  snapVer,     \* seat versions in the transaction's snapshot
  rows,        \* seatCheckResult.rows: sequence of seat ids locked so far
  wseats,      \* uncommitted seat writes of the transaction
  wbooking,    \* uncommitted booking row of the transaction
  bid,         \* booking.id, as returned by the INSERT
  errcode,     \* error.code of the exception being handled
  resp,        \* the response sent
  now,         \* CURRENT_TIMESTAMP, in minutes
  faults,      \* store failures injected so far
  spc,         \* position of each expiry job
  sfound,      \* expiredBookings of each expiry job
  slog,        \* last log line of each expiry job
  block,       \* booking id -> expiry job holding its row lock (pairs)
  swrite,      \* uncommitted writes of each expiry job: [failed, released],
               \* and the bookings its loop has been through: looped
  sret,        \* how the promise of each expiry job settled, and its value
  apc,         \* position of each POST /admin/shows handler
  ainput,      \* total_seats of each admin request
  ashow,       \* show.id, as returned by the INSERT
  aresp,       \* the response status sent to each admin request
  aclient,     \* the pool client running the handler's query in flight
  aerr,        \* whether the query in flight throws
  cidle,       \* the pool's idle clients, the one released last at the end
  cmade,       \* the clients the pool has created and not closed
  ctx,         \* per connection: transaction state and its uncommitted rows
  dshows,      \* committed rows of shows created through the admin route
  dseats,      \* committed rows of seats created through the admin route
  showSeq,     \* shows created so far (the shows_id_seq serial)
  hpc,         \* position of each caller of getClient
  hclient,     \* the client that getClient returned to each caller
  htimer,      \* the checkout timer of each caller: unset, armed, cleared, fired
  hthrew,      \* whether the caller's client.release() threw
  cby,         \* per connection: the callers with statements in its open transaction
  lookup,      \* the response to the last lookup request
  gridSeats,   \* SeatGrid: the seats prop
  selectedSeats, \* SeatGrid: the selected seat ids, in click order
  response,    \* SeatGrid: the response bookSeats returned last
  message      \* SeatGrid: the message shown

vars == <<seats, bookings, bookingSeq, lock, pc, input, snapVer, rows,
          wseats, wbooking, bid, errcode, resp, now, faults, spc, sfound, slog, block, swrite, sret,
          apc, ainput, ashow, aresp, aclient, aerr, cidle, cmade, ctx, dshows,
          dseats, showSeq, hpc, hclient, htimer, hthrew, cby, lookup,
          gridSeats, selectedSeats, response, message>>

reqVars == <<pc, input, snapVer, rows, wseats, wbooking, bid, errcode, resp>>
sweepVars == <<spc, sfound, slog, block, swrite, sret>>
storeVars == <<seats, bookings, bookingSeq, lock>>
adminVars == <<apc, ainput, ashow, aresp, aclient, aerr, cidle, cmade, ctx, dshows,
               dseats, showSeq>>
clientVars == <<hpc, hclient, htimer, hthrew, cby>>
gridVars == <<gridSeats, selectedSeats, response, message>>

\* ----------------------------------------------------------------- Init
\* no admin request yet, an empty pool, no show besides the migration's
AdminInit ==
  /\ apc = [a \in Admins |-> "idle"]
  /\ ainput = [a \in Admins |-> 0]
  /\ ashow = [a \in Admins |-> 0]
  /\ aresp = [a \in Admins |-> 0]
  /\ aclient = [a \in Admins |-> NoClient]
  /\ aerr = [a \in Admins |-> FALSE]
  /\ cidle = <<>>
  /\ cmade = {}
  /\ ctx = [c \in Clients |-> NoTx]
  /\ dshows = {}
  /\ dseats = {}
  /\ showSeq = 0

\* nobody has called getClient yet
ClientInit ==
  /\ hpc = [h \in Holders |-> "idle"]
  /\ hclient = [h \in Holders |-> NoClient]
  /\ htimer = [h \in Holders |-> "unset"]
  /\ hthrew = [h \in Holders |-> FALSE]
  /\ cby = [c \in Clients |-> {}]
  /\ lookup = NoLookup
  /\ gridSeats = <<>>
  /\ selectedSeats = <<>>
  /\ response = NoResponse
  /\ message = NoMessage

Init ==
  /\ seats = [s \in SeatIds |-> [status |-> "AVAILABLE", ver |-> 0, writer |-> NoTxn]]
  /\ bookings = {}
  /\ bookingSeq = 0
  /\ lock = [s \in SeatIds |-> NoTxn]
  /\ pc = [r \in Reqs |-> "idle"]
  /\ input = [r \in Reqs |-> [showId |-> 0, seat_ids |-> <<>>, started |-> 0]]
  /\ snapVer = [r \in Reqs |-> [s \in SeatIds |-> 0]]
  /\ rows = [r \in Reqs |-> <<>>]
  /\ wseats = [r \in Reqs |-> [s \in SeatIds |-> "NONE"]]
  /\ wbooking = [r \in Reqs |-> NoRow]
  /\ bid = [r \in Reqs |-> 0]
  /\ errcode = [r \in Reqs |-> "none"]
  /\ resp = [r \in Reqs |-> NoResp]
  /\ now = 0
  /\ faults = 0
  /\ spc = [w \in Sweeps |-> "idle"]
  /\ sfound = [w \in Sweeps |-> {}]
  /\ slog = [w \in Sweeps |-> "none"]
  /\ block = {}
  /\ swrite = [w \in Sweeps |-> [failed |-> {}, released |-> {}, looped |-> {}]]
  /\ sret = [w \in Sweeps |-> [settled |-> "none", defined |-> FALSE, value |-> 0]]
  /\ AdminInit
  /\ ClientInit

\* ------------------------------------------------------- the store's rules
\* (variant) FOR UPDATE left out of the SELECT: no row lock excludes anyone
NoRowLock(t, s) == FALSE

\* a row lock taken by FOR UPDATE or UPDATE excludes every other transaction
RowLockedByOther(t, s) == lock[s] # NoTxn /\ lock[s] # t

\* (variant) the SELECT without AND show_id = $2
TargetRowsAnyShow(showId, ids) == {s \in SeatIds : s \in Range(ids)}

\* WHERE id = ANY($1::int[]) AND show_id = $2
TargetRows(showId, ids) == {s \in SeatIds : s \in Range(ids) /\ show_id(s) = showId}

Min(S) == CHOOSE x \in S : \A y \in S : x <= y

RECURSIVE SortedSeq(_)
SortedSeq(S) == IF S = {} THEN <<>> ELSE <<Min(S)>> \o SortedSeq(S \ {Min(S)})

\* one row of seatCheckResult.rows
SeatRow(s) == [id |-> s, seat_number |-> seat_number(s),
               status |-> seats[s].status, show_id |-> show_id(s)]

RowIds(rs) == {rs[i].id : i \in DOMAIN rs}

\* SELECT ... FOR UPDATE visits its target rows in id order and locks each:
\* it waits at a row another transaction holds, and under the SERIALIZABLE
\* snapshot it fails with 40001 at a row committed after its snapshot.
Remaining(r) == TargetRows(input[r].showId, input[r].seat_ids) \ RowIds(rows[r])

ScanObstacles(r, S, ver) ==
  {s \in S : RowLockedByOther(r, s) \/ seats[s].ver # ver[s]}

ScanGot(r, S, ver) ==
  IF ScanObstacles(r, S, ver) = {} THEN S
  ELSE {s \in S : s < Min(ScanObstacles(r, S, ver))}

ScanNext(r, S, ver) ==
  IF ScanObstacles(r, S, ver) = {} THEN "check"
  ELSE IF RowLockedByOther(r, Min(ScanObstacles(r, S, ver))) THEN "lockwait"
  ELSE "catch"

\* (variant) the transaction is left open on a failure path: locks stay held
KeepLocks(t) == lock

\* ROLLBACK, or the end of a transaction: its row locks are released
ReleaseLocks(t) == [s \in SeatIds |-> IF lock[s] = t THEN NoTxn ELSE lock[s]]

NoWrites == [s \in SeatIds |-> "NONE"]

\* (variant) the seat writes are made outside the committed transaction
CommitSeatsLost(r) == seats

\* COMMIT installs the transaction's seat writes as new row versions
CommitSeats(r) ==
  [s \in SeatIds |->
     IF wseats[r][s] = "NONE" THEN seats[s]
     ELSE [status |-> wseats[r][s], ver |-> seats[s].ver + 1, writer |-> r]]

\* ------------------------------------------------- POST /booking/:showId
Respond(r, st, err, b, ids, unav) ==
  resp' = [resp EXCEPT ![r] = [status |-> st, error |-> err, booking_id |-> b,
                               seat_ids |-> ids, unavailable_seats |-> unav]]

\* (variant) the upper limit of line 43 is missing
InvalidWhenEmpty(ids) == Len(ids) = 0

\* lines 36-48: seat_ids.length === 0, seat_ids.length > 10
Invalid(ids) == Len(ids) = 0 \/ Len(ids) > MaxSeatsPerBooking

\* lines 25-54: validation, getClient, BEGIN ISOLATION LEVEL SERIALIZABLE
Start(r, showId, ids) ==
  /\ pc[r] = "idle"
  /\ \A q \in Reqs : q < r => pc[q] # "idle"   \* requests are numbered as they arrive
  /\ input' = [input EXCEPT ![r] = [showId |-> showId, seat_ids |-> ids, started |-> now]]
  /\ IF Invalid(ids)
     THEN /\ Respond(r, 400, "validation", 0, <<>>, <<>>)
          /\ pc' = [pc EXCEPT ![r] = "done"]
     ELSE /\ pc' = [pc EXCEPT ![r] = "select"]
          /\ UNCHANGED resp
  /\ UNCHANGED <<storeVars, snapVer, rows, wseats, wbooking, bid, errcode,
                 now, faults, sweepVars, adminVars, clientVars, lookup, gridVars>>

\* the lock scan of SELECT ... FOR UPDATE from the rows still to lock
LockScan(r, ver) ==
  LET got == ScanGot(r, Remaining(r), ver)
      nxt == ScanNext(r, Remaining(r), ver)
  IN /\ lock' = [s \in SeatIds |-> IF s \in got THEN r ELSE lock[s]]
     /\ rows' = [rows EXCEPT ![r] = rows[r] \o [i \in 1..Cardinality(got) |->
                                       SeatRow(SortedSeq(got)[i])]]
     /\ pc' = [pc EXCEPT ![r] = nxt]
     /\ errcode' = [errcode EXCEPT ![r] = IF nxt = "catch" THEN "40001" ELSE errcode[r]]

\* lines 60-66: the statement starts; the transaction's snapshot is taken here
SelectForUpdate(r) ==
  /\ pc[r] = "select"
  /\ snapVer' = [snapVer EXCEPT ![r] = [s \in SeatIds |-> seats[s].ver]]
  /\ LockScan(r, [s \in SeatIds |-> seats[s].ver])
  /\ UNCHANGED <<seats, bookings, bookingSeq, input, wseats, wbooking, bid, resp,
                 now, faults, sweepVars, adminVars, clientVars, lookup, gridVars>>

\* lines 60-66: the row the statement waited for has been released
LockResume(r) ==
  /\ pc[r] = "lockwait"
  /\ ~RowLockedByOther(r, Min(Remaining(r)))
  /\ LockScan(r, snapVer[r])
  /\ UNCHANGED <<seats, bookings, bookingSeq, input, snapVer, wseats, wbooking, bid,
                 resp, now, faults, sweepVars, adminVars, clientVars, lookup, gridVars>>

\* (variant) only a seat held by a reservation counts as taken
UnavailableReservedOnly(rs) == SelectSeq(rs, LAMBDA x : x.status = "RESERVED")

\* line 78: seatCheckResult.rows.filter(seat => seat.status !== 'AVAILABLE')
Unavailable(rs) == SelectSeq(rs, LAMBDA x : x.status # "AVAILABLE")

\* (variant) the conflict list carries seat ids
SeatIdsOf(rs) == [i \in DOMAIN rs |-> rs[i].id]

\* line 84: unavailableSeats.map(s => s.seat_number)
SeatNumbers(rs) == [i \in DOMAIN rs |-> rs[i].seat_number]

\* lines 68-92: the two checks, each with its ROLLBACK and response
CheckRows(r) ==
  /\ pc[r] = "check"
  /\ IF Len(rows[r]) # Len(input[r].seat_ids)
     THEN /\ Respond(r, 400, "mismatch", 0, <<>>, <<>>)
          /\ lock' = ReleaseLocks(r)
          /\ pc' = [pc EXCEPT ![r] = "done"]
     ELSE IF Len(Unavailable(rows[r])) > 0
     THEN /\ Respond(r, 409, "conflict", 0, <<>>, SeatNumbers(Unavailable(rows[r])))
          /\ lock' = ReleaseLocks(r)
          /\ pc' = [pc EXCEPT ![r] = "done"]
     ELSE /\ pc' = [pc EXCEPT ![r] = "reserve"]
          /\ UNCHANGED <<lock, resp>>
  /\ UNCHANGED <<seats, bookings, bookingSeq, input, snapVer, rows, wseats, wbooking,
                 bid, errcode, now, faults, sweepVars, adminVars, clientVars, lookup, gridVars>>

\* UPDATE seats SET status = st WHERE id = ANY(seat_ids)
\* (variant) the UPDATE without its WHERE clause
WriteAllSeats(w, ids, st) == [s \in SeatIds |-> st]

\* UPDATE seats SET status = ... WHERE id = ANY($1::int[])
WriteSeats(w, ids, st) == [s \in SeatIds |-> IF s \in Range(ids) THEN st ELSE w[s]]

\* lines 94-100
Reserve(r) ==
  /\ pc[r] = "reserve"
  /\ wseats' = [wseats EXCEPT ![r] = WriteSeats(wseats[r], input[r].seat_ids, "RESERVED")]
  /\ pc' = [pc EXCEPT ![r] = "insert"]
  /\ UNCHANGED <<storeVars, input, snapVer, rows, wbooking, bid, errcode, resp,
                 now, faults, sweepVars, adminVars, clientVars, lookup, gridVars>>

\* the row of INSERT INTO bookings ... VALUES ($1, $2, $3, 'PENDING', now + 2 min)
NewBooking(r, id) ==
  [id |-> id, show_id |-> input[r].showId, seat_ids |-> input[r].seat_ids,
   user_email |-> r, status |-> "PENDING",
   expires_at |-> input[r].started + ExpiryMinutes, confirmed |-> FALSE]

\* lines 102-110
Insert(r) ==
  /\ pc[r] = "insert"
  /\ bookingSeq' = bookingSeq + 1
  /\ wbooking' = [wbooking EXCEPT ![r] = NewBooking(r, bookingSeq + 1)]
  /\ bid' = [bid EXCEPT ![r] = bookingSeq + 1]
  /\ pc' = [pc EXCEPT ![r] = "confirm"]
  /\ UNCHANGED <<seats, bookings, lock, input, snapVer, rows, wseats, errcode, resp,
                 now, faults, sweepVars, adminVars, clientVars, lookup, gridVars>>

\* (variant) the confirming UPDATE matches no row
ConfirmRowSkipped(b) == b

\* UPDATE bookings SET status = 'CONFIRMED', confirmed_at = CURRENT_TIMESTAMP
ConfirmRow(b) == [b EXCEPT !.status = "CONFIRMED", !.confirmed = TRUE]

\* lines 112-119
Confirm(r) ==
  /\ pc[r] = "confirm"
  /\ wbooking' = [wbooking EXCEPT ![r] = IF wbooking[r].id = bid[r]
                                         THEN ConfirmRow(wbooking[r]) ELSE wbooking[r]]
  /\ pc' = [pc EXCEPT ![r] = "book"]
  /\ UNCHANGED <<storeVars, input, snapVer, rows, wseats, bid, errcode, resp,
                 now, faults, sweepVars, adminVars, clientVars, lookup, gridVars>>

\* (variant) the second seat UPDATE is missing: the seats stay RESERVED
BookSkipped(r) ==
  /\ pc[r] = "book"
  /\ pc' = [pc EXCEPT ![r] = "commit"]
  /\ UNCHANGED <<storeVars, input, snapVer, rows, wseats, wbooking, bid, errcode, resp,
                 now, faults, sweepVars, adminVars, clientVars, lookup, gridVars>>

\* lines 121-127
Book(r) ==
  /\ pc[r] = "book"
  /\ wseats' = [wseats EXCEPT ![r] = WriteSeats(wseats[r], input[r].seat_ids, "BOOKED")]
  /\ pc' = [pc EXCEPT ![r] = "commit"]
  /\ UNCHANGED <<storeVars, input, snapVer, rows, wbooking, bid, errcode, resp,
                 now, faults, sweepVars, adminVars, clientVars, lookup, gridVars>>

\* line 130
Commit(r) ==
  /\ pc[r] = "commit"
  /\ seats' = CommitSeats(r)
  /\ bookings' = bookings \cup {wbooking[r]}
  /\ lock' = ReleaseLocks(r)
  /\ wseats' = [wseats EXCEPT ![r] = NoWrites]
  /\ wbooking' = [wbooking EXCEPT ![r] = NoRow]
  /\ pc' = [pc EXCEPT ![r] = "final"]
  /\ UNCHANGED <<bookingSeq, input, snapVer, rows, bid, errcode, resp,
                 now, faults, sweepVars, adminVars, clientVars, lookup, gridVars>>

\* lines 134-150: SELECT * FROM bookings WHERE id = $1, then the 201 response
Final(r) ==
  /\ pc[r] = "final"
  /\ IF \E b \in bookings : b.id = bid[r]
     THEN /\ Respond(r, 201, "none", bid[r], input[r].seat_ids, <<>>)
          /\ pc' = [pc EXCEPT ![r] = "done"]
          /\ UNCHANGED errcode
     ELSE \* finalBooking.rows[0] is undefined: a TypeError reaches the catch
          /\ pc' = [pc EXCEPT ![r] = "catch"]
          /\ errcode' = [errcode EXCEPT ![r] = "other"]
          /\ UNCHANGED resp
  /\ UNCHANGED <<storeVars, input, snapVer, rows, wseats, wbooking, bid,
                 now, faults, sweepVars, adminVars, clientVars, lookup, gridVars>>

\* a client.query of the try block throws: the store aborts the statement
QueryPcs == {"select", "lockwait", "reserve", "insert", "confirm", "book",
             "commit", "final"}

QueryFails(r, code) ==
  /\ pc[r] \in QueryPcs
  /\ pc[r] = "final" => code = "other"   \* 40001 comes only from the transaction
  /\ faults < MaxFaults
  /\ faults' = faults + 1
  /\ pc' = [pc EXCEPT ![r] = "catch"]
  /\ errcode' = [errcode EXCEPT ![r] = code]
  /\ UNCHANGED <<storeVars, input, snapVer, rows, wseats, wbooking, bid, resp,
                 now, sweepVars, adminVars, clientVars, lookup, gridVars>>

\* lines 152-170: ROLLBACK, then 409 for code 40001 and 500 otherwise
Catch(r) ==
  /\ pc[r] = "catch"
  /\ lock' = ReleaseLocks(r)
  /\ wseats' = [wseats EXCEPT ![r] = NoWrites]
  /\ wbooking' = [wbooking EXCEPT ![r] = NoRow]
  /\ IF errcode[r] = "40001"
     THEN Respond(r, 409, "serialization", 0, <<>>, <<>>)
     ELSE Respond(r, 500, "server", 0, <<>>, <<>>)
  /\ pc' = [pc EXCEPT ![r] = "done"]
  /\ UNCHANGED <<seats, bookings, bookingSeq, input, snapVer, rows, bid, errcode,
                 now, faults, sweepVars, adminVars, clientVars, lookup, gridVars>>

\* CURRENT_TIMESTAMP advances
Tick ==
  /\ now < MaxTime
  /\ now' = now + 1
  /\ UNCHANGED <<storeVars, reqVars, faults, sweepVars, adminVars, clientVars, lookup, gridVars>>

\* ------------------------------------------------- expirePendingBookings
\* (variant) the scan without status = 'PENDING'
ExpiredAnyStatus(b) == b.expires_at < now

\* WHERE status = 'PENDING' AND expires_at < CURRENT_TIMESTAMP
Expired(b) == b.status = "PENDING" /\ b.expires_at < now

BookingLockedByOther(w, b) == \E p \in block : p[1] = b.id /\ p[2] # w

NoSweepWrites == [failed |-> {}, released |-> {}, looped |-> {}]

\* the promise of the async function: not settled, resolved with a value
\* (a function that ends without a return value resolves with undefined),
\* or rejected
Unsettled == [settled |-> "none", defined |-> FALSE, value |-> 0]
ResolvedUndefined == [settled |-> "resolved", defined |-> FALSE, value |-> 0]
Rejected == [settled |-> "rejected", defined |-> FALSE, value |-> 0]

\* lines 28-47: BEGIN, the FOR UPDATE scan of the ledger, and the empty case
\* (COMMIT and return) when no row qualifies
SweepScan(w) ==
  /\ spc[w] = "idle"
  /\ LET found == {b \in bookings : Expired(b)}
     IN /\ \A b \in found : ~BookingLockedByOther(w, b)
        /\ sfound' = [sfound EXCEPT ![w] = found]
        /\ IF found = {}
           THEN /\ slog' = [slog EXCEPT ![w] = "No expired bookings found."]
                /\ sret' = [sret EXCEPT ![w] = ResolvedUndefined]
                /\ UNCHANGED <<spc, block>>
           ELSE /\ slog' = [slog EXCEPT ![w] = "Found expired bookings to process"]
                /\ sret' = [sret EXCEPT ![w] = Unsettled]
                /\ spc' = [spc EXCEPT ![w] = "mark"]
                /\ block' = block \cup {<<b.id, w>> : b \in found}
  /\ UNCHANGED <<storeVars, reqVars, now, faults, swrite, adminVars, clientVars, lookup, gridVars>>

\* lines 49-56: UPDATE bookings SET status = 'FAILED' WHERE id = ANY(bookingIds)
SweepMark(w) ==
  /\ spc[w] = "mark"
  /\ swrite' = [swrite EXCEPT ![w].failed = {b.id : b \in sfound[w]}]
  /\ spc' = [spc EXCEPT ![w] = "release"]
  /\ UNCHANGED <<storeVars, reqVars, now, faults, sfound, slog, block, sret, adminVars, clientVars, lookup, gridVars>>

\* (variant) the UPDATE of the loop without AND status = 'RESERVED'
ReleaseAnyStatus(w, b) ==
  {s \in SeatIds : s \in Range(b.seat_ids) /\ s \notin swrite[w].released}

\* the seats one UPDATE of the loop changes: id = ANY(seat_ids) AND status = 'RESERVED'
ReleaseTargets(w, b) ==
  {s \in SeatIds : /\ s \in Range(b.seat_ids)
                   /\ s \notin swrite[w].released
                   /\ seats[s].status = "RESERVED"}

\* line 59: the booking the loop is at; the rows come in the order of their ids
LoopLeft(w) == {b \in sfound[w] : b.id \notin swrite[w].looped}
LoopAt(w) == CHOOSE b \in LoopLeft(w) : \A c \in LoopLeft(w) : b.id <= c.id

\* lines 59-68: one turn of the loop, an UPDATE of the seats of one booking;
\* the statement waits while another transaction holds one of its rows
SweepRelease(w) ==
  /\ spc[w] = "release"
  /\ LoopLeft(w) # {}
  /\ LET T == ReleaseTargets(w, LoopAt(w))
     IN /\ \A s \in T : ~RowLockedByOther(w, s)
        /\ lock' = [s \in SeatIds |-> IF s \in T THEN w ELSE lock[s]]
        /\ swrite' = [swrite EXCEPT ![w].released = swrite[w].released \cup T,
                                    ![w].looped = swrite[w].looped \cup {LoopAt(w).id}]
  /\ spc' = [spc EXCEPT ![w] = IF LoopLeft(w) = {LoopAt(w)} THEN "commit" ELSE "release"]
  /\ UNCHANGED <<seats, bookings, bookingSeq, reqVars, now, faults, sfound, slog,
                 block, sret, adminVars, clientVars, lookup, gridVars>>

\* (variant) the UPDATE of lines 51-56 leaves the status as it was
FailRowSkipped(b) == b

\* a booking row as the expiry job's UPDATE leaves it
FailRow(b) == [b EXCEPT !.status = "FAILED"]

\* lines 70-72: COMMIT, the log line with the count; the function ends
\* without a return statement
SweepCommit(w) ==
  /\ spc[w] = "commit"
  /\ bookings' = {IF b.id \in swrite[w].failed THEN FailRow(b) ELSE b : b \in bookings}
  /\ seats' = [s \in SeatIds |->
                 IF s \in swrite[w].released
                 THEN [status |-> "AVAILABLE", ver |-> seats[s].ver + 1, writer |-> w]
                 ELSE seats[s]]
  /\ lock' = ReleaseLocks(w)
  /\ block' = {p \in block : p[2] # w}
  /\ swrite' = [swrite EXCEPT ![w] = NoSweepWrites]
  /\ slog' = [slog EXCEPT ![w] = "Successfully expired bookings"]
  /\ sret' = [sret EXCEPT ![w] = ResolvedUndefined]
  /\ spc' = [spc EXCEPT ![w] = "idle"]
  /\ UNCHANGED <<bookingSeq, reqVars, now, faults, sfound, adminVars, clientVars, lookup, gridVars>>

\* --------------------------------------------- the store's lock cycles
Txns == Reqs \cup Sweeps

\* the transactions whose row locks t is waiting for
WaitsFor(t) ==
  IF t \in Reqs
  THEN IF pc[t] = "lockwait" THEN {lock[Min(Remaining(t))]} \ {NoTxn, t} ELSE {}
  ELSE IF spc[t] = "release" /\ LoopLeft(t) # {}
       THEN {lock[s] : s \in ReleaseTargets(t, LoopAt(t))} \ {NoTxn, t}
       ELSE {}

RECURSIVE Reach(_, _)
Reach(S, n) ==
  IF n = 0 THEN S ELSE Reach(S \cup UNION {WaitsFor(t) : t \in S}, n - 1)

\* t waits, directly or not, for a transaction that waits for t
InCycle(t) == t \in Reach(WaitsFor(t), Cardinality(Txns))

\* the store's deadlock detector ends a cycle by aborting one transaction of
\* it, whichever notices first, with SQLSTATE 40P01: here a booking handler,
\* whose client.query throws
HandlerDeadlock(r) ==
  /\ InCycle(r)
  /\ pc' = [pc EXCEPT ![r] = "catch"]
  /\ errcode' = [errcode EXCEPT ![r] = "40P01"]
  /\ UNCHANGED <<storeVars, input, snapVer, rows, wseats, wbooking, bid, resp,
                 now, faults, sweepVars, adminVars, clientVars, lookup, gridVars>>

\* (variant) the catch block without its ROLLBACK: the writes stay pending
\* on the connection
SweepWritesKept(w) == swrite[w]

\* line 75: ROLLBACK drops the uncommitted writes of the job
SweepWritesDropped(w) == NoSweepWrites

\* lines 74-81: the catch block: ROLLBACK, the error is logged and thrown again
SweepThrows(w) ==
  /\ lock' = ReleaseLocks(w)
  /\ block' = {p \in block : p[2] # w}
  /\ swrite' = [swrite EXCEPT ![w] = SweepWritesDropped(w)]
  /\ slog' = [slog EXCEPT ![w] = "Error in expiration job"]
  /\ sret' = [sret EXCEPT ![w] = Rejected]
  /\ spc' = [spc EXCEPT ![w] = "idle"]
  /\ UNCHANGED <<seats, bookings, bookingSeq, reqVars, now, sfound, adminVars, clientVars, lookup, gridVars>>

\* the job's query throws because the job was the one aborted in a lock cycle
SweepCatch(w) ==
  /\ InCycle(w)
  /\ SweepThrows(w)
  /\ UNCHANGED faults

\* a client.query of the job's try block throws: BEGIN or the scan (from
\* "idle"), the UPDATE of the bookings, an UPDATE of the loop, or COMMIT
SweepQueryPcs == {"idle", "mark", "release", "commit"}

SweepQueryFails(w) ==
  /\ spc[w] \in SweepQueryPcs
  /\ faults < MaxFaults
  /\ faults' = faults + 1
  /\ SweepThrows(w)

\* ---------------------------------------------------- a store in service
\* The job works on whatever the ledger holds. The handler commits a row only
\* as CONFIRMED, so the PENDING rows the job is written for are given here as
\* the schema admits them (bookings.status DEFAULT 'PENDING'): up to MaxStaged
\* rows on the first show, and the seats of that show in any status.
SeatStatuses == {"AVAILABLE", "RESERVED", "BOOKED"}

StagedLists ==
  {ids \in ShortLists : /\ Len(ids) > 0
                        /\ \A i \in DOMAIN ids : show_id(ids[i]) = 1
                        /\ \A i, j \in DOMAIN ids : i < j => ids[i] < ids[j]}

StagedRow(i, ids, st, exp) ==
  [id |-> i, show_id |-> 1, seat_ids |-> ids, user_email |-> 0, status |-> st,
   expires_at |-> exp, confirmed |-> (st = "CONFIRMED")]

StagedLedgers ==
  UNION {{{StagedRow(i, l[i], st[i], ex[i]) : i \in 1..n} :
            l \in [1..n -> StagedLists],
            st \in [1..n -> {"PENDING", "CONFIRMED"}],
            ex \in [1..n -> {0, ExpiryMinutes}]} : n \in 1..MaxStaged}

InitStaged ==
  /\ \E st \in [SeatIds -> SeatStatuses] :
       /\ \A s \in SeatIds : show_id(s) # 1 => st[s] = "AVAILABLE"
       /\ seats = [s \in SeatIds |-> [status |-> st[s], ver |-> 0, writer |-> NoTxn]]
  /\ bookings \in StagedLedgers
  /\ bookingSeq = Cardinality(bookings)
  /\ lock = [s \in SeatIds |-> NoTxn]
  /\ pc = [r \in Reqs |-> "idle"]
  /\ input = [r \in Reqs |-> [showId |-> 0, seat_ids |-> <<>>, started |-> 0]]
  /\ snapVer = [r \in Reqs |-> [s \in SeatIds |-> 0]]
  /\ rows = [r \in Reqs |-> <<>>]
  /\ wseats = [r \in Reqs |-> [s \in SeatIds |-> "NONE"]]
  /\ wbooking = [r \in Reqs |-> NoRow]
  /\ bid = [r \in Reqs |-> 0]
  /\ errcode = [r \in Reqs |-> "none"]
  /\ resp = [r \in Reqs |-> NoResp]
  /\ now = 0
  /\ faults = 0
  /\ spc = [w \in Sweeps |-> "idle"]
  /\ sfound = [w \in Sweeps |-> {}]
  /\ slog = [w \in Sweeps |-> "none"]
  /\ block = {}
  /\ swrite = [w \in Sweeps |-> NoSweepWrites]
  /\ sret = [w \in Sweeps |-> Unsettled]
  /\ AdminInit
  /\ ClientInit

\* ------------------------------------------------- POST /admin/shows
\* Every statement of the handler goes through query(), that is pool.query:
\* it checks a client out of the pool, runs the one statement on it and
\* releases it. The pool hands out the idle client released last, and makes
\* a new client when none is idle.
bookingVars == <<storeVars, reqVars, sweepVars, now, faults, clientVars, lookup, gridVars>>

TotalSeatsInputs == (0..MaxNewSeats) \cup {MaxTotalSeats + 1}

\* lines 286-298: !total_seats, total_seats < 1 || total_seats > 1000
InvalidShow(n) == n = 0 \/ n < 1 \/ n > MaxTotalSeats

\* lines 283-298: the request arrives and is validated
AdminStart(a, n) ==
  /\ apc[a] = "idle"
  /\ \A b \in Admins : b < a => apc[b] # "idle"
  /\ ainput' = [ainput EXCEPT ![a] = n]
  /\ IF InvalidShow(n)
     THEN /\ apc' = [apc EXCEPT ![a] = "done"]
          /\ aresp' = [aresp EXCEPT ![a] = 400]
     ELSE /\ apc' = [apc EXCEPT ![a] = "begin"]
          /\ UNCHANGED aresp
  /\ UNCHANGED <<ashow, aclient, aerr, cidle, cmade, ctx, dshows, dseats, showSeq,
                 bookingVars>>

\* pool.connect: the idle client released last, or a new client
CanAcquire == cidle # <<>> \/ cmade # Clients
Acquired == IF cidle # <<>> THEN cidle[Len(cidle)] ELSE Min(Clients \ cmade)

\* pool.query up to the moment the statement has run on the client
Checkout(a, at) ==
  /\ apc[a] = at
  /\ aclient[a] = NoClient
  /\ CanAcquire
  /\ aclient' = [aclient EXCEPT ![a] = Acquired]
  /\ cidle' = IF cidle # <<>> THEN SubSeq(cidle, 1, Len(cidle) - 1) ELSE cidle
  /\ cmade' = cmade \cup {Acquired}

\* line 311: query('BEGIN'); on a connection already in a transaction block
\* it only raises a warning
AdminBegin(a) ==
  /\ Checkout(a, "begin")
  /\ ctx' = [ctx EXCEPT ![Acquired].state = "open"]
  /\ UNCHANGED <<apc, ainput, ashow, aresp, aerr, dshows, dseats, showSeq, bookingVars>>

\* the shows row of an admin request; ids go on after the migration's shows
ShowRow(a) == [id |-> NumShows + showSeq + 1, total_seats |-> ainput[a]]

\* lines 314-319: INSERT INTO shows ... RETURNING *; outside a transaction
\* block the statement commits at once
AdminInsertShow(a) ==
  /\ Checkout(a, "show")
  /\ showSeq' = showSeq + 1
  /\ ashow' = [ashow EXCEPT ![a] = ShowRow(a).id]
  /\ IF ctx[Acquired].state = "open"
     THEN /\ ctx' = [ctx EXCEPT ![Acquired].shows = ctx[Acquired].shows \cup {ShowRow(a)}]
          /\ UNCHANGED dshows
     ELSE /\ dshows' = dshows \cup {ShowRow(a)}
          /\ UNCHANGED ctx
  /\ UNCHANGED <<apc, ainput, aresp, aerr, dseats, bookingVars>>

\* lines 324-328: SELECT $1, generate_series(1, $2), 'AVAILABLE'
SeatRows(sh, n) ==
  {[show_id |-> sh, seat_number |-> k, status |-> "AVAILABLE"] : k \in 1..n}

\* seats.show_id REFERENCES shows(id): the show row must be committed, or
\* written by the connection's own transaction
ShowVisible(c, sh) == \E x \in dshows \cup ctx[c].shows : x.id = sh

\* lines 324-328: INSERT INTO seats; it throws when the foreign key fails
AdminInsertSeats(a) ==
  /\ Checkout(a, "seats")
  /\ IF ~ShowVisible(Acquired, ashow[a])
     THEN /\ aerr' = [aerr EXCEPT ![a] = TRUE]
          /\ UNCHANGED <<ctx, dseats>>
     ELSE /\ UNCHANGED aerr
          /\ IF ctx[Acquired].state = "open"
             THEN /\ ctx' = [ctx EXCEPT ![Acquired].seats =
                               ctx[Acquired].seats \cup SeatRows(ashow[a], ainput[a])]
                  /\ UNCHANGED dseats
             ELSE /\ dseats' = dseats \cup SeatRows(ashow[a], ainput[a])
                  /\ UNCHANGED ctx
  /\ UNCHANGED <<apc, ainput, ashow, aresp, dshows, showSeq, bookingVars>>

\* line 330: query('COMMIT') commits whatever the connection it lands on has
\* pending, and is a warning on a connection outside a transaction block
AdminCommit(a) ==
  /\ Checkout(a, "commit")
  /\ dshows' = dshows \cup ctx[Acquired].shows
  /\ dseats' = dseats \cup ctx[Acquired].seats
  /\ ctx' = [ctx EXCEPT ![Acquired] = NoTx]
  /\ UNCHANGED <<apc, ainput, ashow, aresp, aerr, showSeq, bookingVars>>

\* line 346: query('ROLLBACK') drops whatever the connection it lands on has
\* pending
AdminRollback(a) ==
  /\ Checkout(a, "rollback")
  /\ ctx' = [ctx EXCEPT ![Acquired] = NoTx]
  /\ UNCHANGED <<apc, ainput, ashow, aresp, aerr, dshows, dseats, showSeq, bookingVars>>

\* where the handler goes when its await returns
AfterQuery(at) ==
  CASE at = "begin" -> "show"
    [] at = "show" -> "seats"
    [] at = "seats" -> "commit"
    [] OTHER -> "done"

\* the query returns or throws: pool.query releases the client, and closes it
\* when the statement failed (the server then rolls its transaction back);
\* after COMMIT the handler answers 201 (lines 334-343), a throw goes to the
\* catch block, which answers 500 after its ROLLBACK (lines 345-352)
AdminComplete(a) ==
  /\ aclient[a] # NoClient
  /\ aclient' = [aclient EXCEPT ![a] = NoClient]
  /\ aerr' = [aerr EXCEPT ![a] = FALSE]
  /\ IF aerr[a]
     THEN /\ cmade' = cmade \ {aclient[a]}
          /\ ctx' = [ctx EXCEPT ![aclient[a]] = NoTx]
          /\ apc' = [apc EXCEPT ![a] = "rollback"]
          /\ UNCHANGED <<cidle, aresp>>
     ELSE /\ cidle' = Append(cidle, aclient[a])
          /\ apc' = [apc EXCEPT ![a] = AfterQuery(apc[a])]
          /\ aresp' = [aresp EXCEPT ![a] =
                         CASE apc[a] = "commit" -> 201
                           [] apc[a] = "rollback" -> 500
                           [] OTHER -> aresp[a]]
          /\ UNCHANGED <<cmade, ctx>>
  /\ UNCHANGED <<ainput, ashow, dshows, dseats, showSeq, bookingVars>>

AdminShows(a) ==
  \/ \E n \in TotalSeatsInputs : AdminStart(a, n)
  \/ AdminBegin(a)
  \/ AdminInsertShow(a)
  \/ AdminInsertSeats(a)
  \/ AdminCommit(a)
  \/ AdminRollback(a)
  \/ AdminComplete(a)

NextAdmin == \E a \in Admins : AdminShows(a)

\* concurrent admin requests on the migrated store
SpecAdmin == Init /\ [][NextAdmin]_vars

\* -------------------------------------------------- getClient (db.js)
\* The booking handler and the expiry job take a client with getClient, run
\* BEGIN, their statements and COMMIT or ROLLBACK on it, and release it in
\* their finally block. getClient arms a 30 second timer that releases the
\* client, and replaces client.release by a function that clears the timer,
\* restores the pool's release and calls it. The pool's release returns the
\* client to the idle list the first time and throws the second time.
notClientVars == <<storeVars, reqVars, sweepVars, now, faults, apc, ainput, ashow,
                   aresp, aclient, aerr, dshows, dseats, showSeq, lookup, gridVars>>

\* db.js lines 49-69: pool.connect, setTimeout, the release override
GetClient(h) ==
  /\ hpc[h] = "idle"
  /\ \A g \in Holders : g < h => hpc[g] # "idle"
  /\ CanAcquire
  /\ hclient' = [hclient EXCEPT ![h] = Acquired]
  /\ cidle' = IF cidle # <<>> THEN SubSeq(cidle, 1, Len(cidle) - 1) ELSE cidle
  /\ cmade' = cmade \cup {Acquired}
  /\ htimer' = [htimer EXCEPT ![h] = "armed"]
  /\ hpc' = [hpc EXCEPT ![h] = "begin"]
  /\ UNCHANGED <<hthrew, cby, ctx, notClientVars>>

\* booking.js line 54, expireBookings.js line 28: client.query('BEGIN ...');
\* on a connection already inside a transaction block it is only a warning
ClientBegin(h) ==
  /\ hpc[h] = "begin"
  /\ ctx' = [ctx EXCEPT ![hclient[h]].state = "open"]
  /\ cby' = [cby EXCEPT ![hclient[h]] = cby[hclient[h]] \cup {h}]
  /\ hpc' = [hpc EXCEPT ![h] = "query"]
  /\ UNCHANGED <<hclient, htimer, hthrew, cidle, cmade, notClientVars>>

\* booking.js lines 60-127, expireBookings.js lines 31-68: the statements of
\* the transaction; on a connection whose transaction has been ended they
\* run outside a transaction block
ClientQuery(h) ==
  /\ hpc[h] = "query"
  /\ cby' = [cby EXCEPT ![hclient[h]] =
               IF ctx[hclient[h]].state = "open" THEN cby[hclient[h]] \cup {h}
               ELSE cby[hclient[h]]]
  /\ hpc' = [hpc EXCEPT ![h] = "end"]
  /\ UNCHANGED <<hclient, htimer, hthrew, cidle, cmade, ctx, notClientVars>>

\* booking.js lines 130 and 154, expireBookings.js lines 70 and 75: COMMIT or
\* ROLLBACK ends the transaction the connection is in
ClientEnd(h) ==
  /\ hpc[h] = "end"
  /\ ctx' = [ctx EXCEPT ![hclient[h]] = NoTx]
  /\ cby' = [cby EXCEPT ![hclient[h]] = {}]
  /\ hpc' = [hpc EXCEPT ![h] = "release"]
  /\ UNCHANGED <<hclient, htimer, hthrew, cidle, cmade, notClientVars>>

\* db.js lines 61-66 run from the timer: the client goes back to the pool
TimerReleases(h) == Append(cidle, hclient[h])

\* db.js lines 55-58: the timer fires while the caller still has the client
TimerFires(h) ==
  /\ htimer[h] = "armed"
  /\ hpc[h] \in {"begin", "query", "end", "release"}
  /\ htimer' = [htimer EXCEPT ![h] = "fired"]
  /\ cidle' = TimerReleases(h)
  /\ UNCHANGED <<hpc, hclient, hthrew, cmade, ctx, cby, notClientVars>>

\* booking.js lines 171-174, expireBookings.js lines 79-81: client.release()
\* in finally. With the timer still armed it is the override of db.js lines
\* 61-66; after the timer fired it is the pool's own release, called for the
\* second time, which throws
ClientRelease(h) ==
  /\ hpc[h] = "release"
  /\ hpc' = [hpc EXCEPT ![h] = "done"]
  /\ IF htimer[h] = "armed"
     THEN /\ htimer' = [htimer EXCEPT ![h] = "cleared"]
          /\ cidle' = Append(cidle, hclient[h])
          /\ UNCHANGED hthrew
     ELSE /\ hthrew' = [hthrew EXCEPT ![h] = TRUE]
          /\ UNCHANGED <<htimer, cidle>>
  /\ UNCHANGED <<hclient, cmade, ctx, cby, notClientVars>>

Holder(h) ==
  \/ GetClient(h)
  \/ ClientBegin(h)
  \/ ClientQuery(h)
  \/ ClientEnd(h)
  \/ TimerFires(h)
  \/ ClientRelease(h)

NextClient == \E h \in Holders : Holder(h)

\* callers of getClient on the pool
SpecClient == Init /\ [][NextClient]_vars

\* ------------------------------------------------------- specifications
Booking(r) ==
  \/ \E showId \in Shows, ids \in SeatLists : Start(r, showId, ids)
  \/ SelectForUpdate(r)
  \/ LockResume(r)
  \/ CheckRows(r)
  \/ Reserve(r)
  \/ Insert(r)
  \/ Confirm(r)
  \/ Book(r)
  \/ Commit(r)
  \/ Final(r)
  \/ Catch(r)

\* the handlers and the job on a store that fails only as its isolation
\* rules say
NextNoFault ==
  \/ \E r \in Reqs : Booking(r)
  \/ \E w \in Sweeps : SweepScan(w)
  \/ Tick

Next ==
  \/ NextNoFault
  \/ \E r \in Reqs, code \in {"40001", "other"} : QueryFails(r, code)

Spec == Init /\ [][Next]_vars

SpecNoFault == Init /\ [][NextNoFault]_vars

\* a booking attempt on the seats of the staged show
StagedBooking(r) ==
  \/ \E ids \in StagedLists : Start(r, 1, ids)
  \/ SelectForUpdate(r)
  \/ LockResume(r)
  \/ CheckRows(r)
  \/ Reserve(r)
  \/ Insert(r)
  \/ Confirm(r)
  \/ Book(r)
  \/ Commit(r)
  \/ Final(r)
  \/ Catch(r)
  \/ HandlerDeadlock(r)

\* the whole job, run by whoever invokes it
Sweep(w) ==
  \/ SweepScan(w)
  \/ SweepMark(w)
  \/ SweepRelease(w)
  \/ SweepCommit(w)
  \/ SweepCatch(w)

NextStaged ==
  \/ \E r \in 1..MaxStagedReq : StagedBooking(r)
  \/ \E w \in Sweeps : Sweep(w)
  \/ Tick

\* the handlers and the job on a store in service
SpecStaged == InitStaged /\ [][NextStaged]_vars

\* the job alone, on a store that may fail any of its statements
NextSweepFault ==
  \/ \E w \in Sweeps : \/ SweepScan(w)
                        \/ SweepMark(w)
                        \/ SweepRelease(w)
                        \/ SweepCommit(w)
                        \/ SweepQueryFails(w)
  \/ Tick

SpecSweepFault == InitStaged /\ [][NextSweepFault]_vars

\* a handler that has started goes on: the event loop runs every continuation
\* that is ready and the store answers every statement it can execute
Proceed(r) ==
  \/ SelectForUpdate(r)
  \/ LockResume(r)
  \/ CheckRows(r)
  \/ Reserve(r)
  \/ Insert(r)
  \/ Confirm(r)
  \/ Book(r)
  \/ Commit(r)
  \/ Final(r)
  \/ Catch(r)
  \/ HandlerDeadlock(r)

\* a job that has been invoked goes on in the same way
SweepProceed(w) ==
  \/ SweepMark(w)
  \/ SweepRelease(w)
  \/ SweepCommit(w)
  \/ SweepCatch(w)

\* booking attempts alone
NextAttempts == \E r \in Reqs : Booking(r)

\* line 50: getClient rejects (pool.connect fails, or gives up after
\* connectionTimeoutMillis); the call is outside the try block, so the
\* handler's promise rejects, and express 4 does not pass the rejection of an
\* async handler to the error middleware of index.js: nothing is sent
ConnectFails(r, showId, ids) ==
  /\ pc[r] = "idle"
  /\ \A q \in Reqs : q < r => pc[q] # "idle"
  /\ ~Invalid(ids)
  /\ faults < MaxFaults
  /\ faults' = faults + 1
  /\ input' = [input EXCEPT ![r] = [showId |-> showId, seat_ids |-> ids, started |-> now]]
  /\ pc' = [pc EXCEPT ![r] = "rejected"]
  /\ UNCHANGED <<storeVars, snapVer, rows, wseats, wbooking, bid, errcode, resp,
                 now, sweepVars, adminVars, clientVars, lookup, gridVars>>

\* line 154: the ROLLBACK of the catch block throws (the connection is lost,
\* the store drops the transaction); the exception leaves the catch block
\* before any response, the finally block releases the client and the
\* handler's promise rejects
RollbackFails(r) ==
  /\ pc[r] = "catch"
  /\ faults < MaxFaults
  /\ faults' = faults + 1
  /\ lock' = ReleaseLocks(r)
  /\ wseats' = [wseats EXCEPT ![r] = NoWrites]
  /\ wbooking' = [wbooking EXCEPT ![r] = NoRow]
  /\ pc' = [pc EXCEPT ![r] = "rejected"]
  /\ UNCHANGED <<seats, bookings, bookingSeq, input, snapVer, rows, bid, errcode,
                 resp, now, sweepVars, adminVars, clientVars, lookup, gridVars>>

\* booking attempts where statements, the checkout of the client and the
\* ROLLBACK can fail
NextConnFault ==
  \/ NextAttempts
  \/ \E r \in Reqs, code \in {"40001", "other"} : QueryFails(r, code)
  \/ \E r \in Reqs, showId \in Shows, ids \in SeatLists : ConnectFails(r, showId, ids)
  \/ \E r \in Reqs : RollbackFails(r)

SpecConnFault == Init /\ [][NextConnFault]_vars

\* ------------------------------------------------------------ lookups
\* booking.js lines 181-225: GET /booking/:id, one SELECT on bookings
GetBooking(id) ==
  /\ lookup' = [op |-> "booking",
                status |-> IF \E b \in bookings : b.id = id THEN 200 ELSE 404,
                data |-> {b \in bookings : b.id = id}]
  /\ UNCHANGED <<storeVars, reqVars, sweepVars, now, faults, adminVars, clientVars, gridVars>>

\* booking.js lines 231-266: GET /booking/show/:showId, one SELECT on bookings
GetShowBookings(showId) ==
  /\ lookup' = [op |-> "bookings", status |-> 200,
                data |-> {b \in bookings : b.show_id = showId}]
  /\ UNCHANGED <<storeVars, reqVars, sweepVars, now, faults, adminVars, clientVars, gridVars>>

\* the seat rows a SELECT ... FROM seats WHERE show_id = $1 returns
SeatsOfShow(showId) ==
  {[id |-> s, seat_number |-> seat_number(s), status |-> seats[s].status] :
     s \in {x \in SeatIds : show_id(x) = showId}}

\* booking.js lines 358-390: GET /admin/shows/:id/seats, one SELECT on seats
GetShowSeats(showId) ==
  /\ lookup' = [op |-> "seats", status |-> 200, data |-> SeatsOfShow(showId)]
  /\ UNCHANGED <<storeVars, reqVars, sweepVars, now, faults, adminVars, clientVars, gridVars>>

\* GET /shows/:id (fetchShowDetails): the show with its seat layout
GetShowDetails(showId) ==
  /\ lookup' = [op |-> "show", status |-> 200,
                data |-> {[id |-> showId, total_seats |-> total_seats(showId)]}
                         \cup SeatsOfShow(showId)]
  /\ UNCHANGED <<storeVars, reqVars, sweepVars, now, faults, adminVars, clientVars, gridVars>>

\* GET /shows (fetchShows): the shows
GetShows ==
  /\ lookup' = [op |-> "shows", status |-> 200,
                data |-> {[id |-> sh, total_seats |-> total_seats(sh)] : sh \in Shows}]
  /\ UNCHANGED <<storeVars, reqVars, sweepVars, now, faults, adminVars, clientVars, gridVars>>

\* booking attempts, failing statements included, among lookup requests
NextLookup ==
  \/ NextAttempts
  \/ \E r \in Reqs, code \in {"40001", "other"} : QueryFails(r, code)
  \/ \E id \in 1..MaxReq : GetBooking(id)
  \/ \E showId \in Shows : GetShowBookings(showId)
  \/ \E showId \in Shows : GetShowSeats(showId)
  \/ \E showId \in Shows : GetShowDetails(showId)
  \/ GetShows

SpecLookup == Init /\ [][NextLookup]_vars

\* ------------------------------------------- SeatGrid.tsx (frontend)
\* BookingPage mounts SeatGrid with the seats of one show as GET /shows/:id
\* returned them: serial ids from the show's first seat id on, numbers 1..n
\* (generate_series), here all seen AVAILABLE
notGridVars == <<storeVars, reqVars, sweepVars, now, faults, adminVars, clientVars,
                 lookup>>

Mount(first, n) ==
  /\ gridSeats = <<>>
  /\ gridSeats' = [k \in 1..n |-> [id |-> first + k - 1, seat_number |-> k,
                                   status |-> "AVAILABLE"]]
  /\ UNCHANGED <<selectedSeats, response, message, notGridVars>>

\* lines 25-43: toggleSeat
ToggleSeat(k) ==
  /\ k \in DOMAIN gridSeats
  /\ gridSeats[k].status = "AVAILABLE"
  /\ IF gridSeats[k].id \in Range(selectedSeats)
     THEN /\ selectedSeats' = SelectSeq(selectedSeats, LAMBDA x : x # gridSeats[k].id)
          /\ UNCHANGED message
     ELSE IF Len(selectedSeats) >= MaxSeatsPerBooking
          THEN /\ message' = [type |-> "error", text |-> "maximum", seats |-> <<>>]
               /\ UNCHANGED selectedSeats
          ELSE /\ selectedSeats' = Append(selectedSeats, gridSeats[k].id)
               /\ UNCHANGED message
  /\ UNCHANGED <<gridSeats, response, notGridVars>>

\* booking.js lines 77-91 as the grid receives it: the 409 response lists
\* the seat_number of each selected row that is not AVAILABLE, in row order
Conflict(U) ==
  [success |-> FALSE, error |-> "conflict",
   unavailable_seats |->
     SortedSeq({gridSeats[k].seat_number : k \in {j \in DOMAIN gridSeats : gridSeats[j].id \in U}})]

\* the response bookSeats returns: success, a 409 naming the unavailable
\* ones U of the selected seats, or an error without unavailable_seats
BookSeats(kind, U) ==
  CASE kind = "ok" -> [success |-> TRUE, error |-> "none", unavailable_seats |-> <<>>]
    [] kind = "conflict" -> Conflict(U)
    [] OTHER -> [success |-> FALSE, error |-> "other", unavailable_seats |-> <<>>]

\* lines 78-81: seats.find((s) => s.id === seatId), then its seat_number,
\* else the value itself
ShownNumber(x) ==
  IF \E k \in DOMAIN gridSeats : gridSeats[k].id = x
  THEN gridSeats[CHOOSE k \in DOMAIN gridSeats : gridSeats[k].id = x].seat_number
  ELSE x

\* lines 45-93: handleBooking
HandleBooking(email, kind, U) ==
  /\ gridSeats # <<>>
  /\ U \subseteq Range(selectedSeats)
  /\ (kind = "conflict") = (U # {})
  /\ IF Len(selectedSeats) = 0
     THEN /\ message' = [type |-> "error", text |-> "select", seats |-> <<>>]
          /\ UNCHANGED <<selectedSeats, response>>
     ELSE IF ~email
     THEN /\ message' = [type |-> "error", text |-> "email", seats |-> <<>>]
          /\ UNCHANGED <<selectedSeats, response>>
     ELSE /\ response' = BookSeats(kind, U)
          /\ IF response'.success
             THEN /\ message' = [type |-> "success", text |-> "confirmed", seats |-> <<>>]
                  /\ selectedSeats' = <<>>
             ELSE /\ message' =
                       IF Len(response'.unavailable_seats) > 0
                       THEN [type |-> "error", text |-> "unavailable",
                             seats |-> [i \in DOMAIN response'.unavailable_seats |->
                                          ShownNumber(response'.unavailable_seats[i])]]
                       ELSE [type |-> "error", text |-> response'.error, seats |-> <<>>]
                  /\ UNCHANGED selectedSeats
  /\ UNCHANGED <<gridSeats, notGridVars>>

NextGrid ==
  \/ \E first \in 1..MaxFirstId, n \in 1..MaxGridSeats : Mount(first, n)
  \/ \E k \in 1..MaxGridSeats : ToggleSeat(k)
  \/ \E email \in BOOLEAN, kind \in {"ok", "conflict", "other"},
        U \in SUBSET (1..(MaxFirstId + MaxGridSeats - 1)) : HandleBooking(email, kind, U)

\* the seat grid of one show in a browser
SpecGrid == Init /\ [][NextGrid]_vars

\* the booking handlers, scheduled fairly, on the migrated store
SpecFair == Init /\ [][NextAttempts]_vars /\ WF_vars(\E r \in Reqs : Proceed(r))

\* the running system on a store in service: handlers and invoked jobs go on
\* and time passes, but nothing in the server invokes the job (index.js does
\* not import it, and the job file runs it only as a script of its own), so
\* SweepScan is under no fairness
SpecLive ==
  /\ InitStaged /\ [][NextStaged]_vars
  /\ WF_vars(\E r \in Reqs : Proceed(r))
  /\ WF_vars(\E w \in Sweeps : SweepProceed(w))
  /\ WF_vars(Tick)

\* ------------------------------------------------------------ properties
Seen(r) == pc[r] = "done"

\* a request as the interface describes it: 1..10 distinct seat ids
Distinct(ids) == \A i, j \in DOMAIN ids : i # j => ids[i] # ids[j]
WellFormed(r) ==
  /\ Len(input[r].seat_ids) \in 1..MaxSeatsPerBooking
  /\ Distinct(input[r].seat_ids)

\* every requested seat belongs to the declared show
AllBelong(r) == \A s \in Range(input[r].seat_ids) : show_id(s) = input[r].showId

ConfirmedListing(s) ==
  {b \in bookings : b.status = "CONFIRMED" /\ s \in Range(b.seat_ids)}

SweepRan == \E w \in Sweeps : slog[w] # "none"

\* C1: no seat is ever double-allocated: in every committed state each seat
\* is listed by at most one CONFIRMED booking, and at most one attempt has
\* committed a write of the seat (its transition to BOOKED).
C1_NoDoubleAllocation ==
  \A s \in SeatIds :
    /\ Cardinality(ConfirmedListing(s)) <= 1
    /\ seats[s].ver <= 1
    /\ seats[s].ver = 1 => seats[s].status = "BOOKED"

\* two attempts contested a seat, one booked it and the other was refused,
\* with an expiry job run in between
C1_Witness ==
  \E r, q \in Reqs :
    /\ r # q /\ resp[r].status = 201 /\ resp[q].status = 409
    /\ Range(input[r].seat_ids) \cap Range(input[q].seat_ids) # {}
    /\ SweepRan

\* C2: when every request names the same seat set of one show, all of it
\* AVAILABLE beforehand, then once all have been answered exactly one was
\* answered 201 and every other one 409; and while some are unanswered, one of
\* them can take a step (none is left without a response).
SameSeatSet ==
  \A r, q \in Reqs :
    (pc[r] # "idle" /\ pc[q] # "idle") =>
      /\ input[r].showId = input[q].showId
      /\ Range(input[r].seat_ids) = Range(input[q].seat_ids)
      /\ WellFormed(r) /\ AllBelong(r)

CanStep(r) ==
  /\ pc[r] \notin {"idle", "done"}
  /\ pc[r] = "lockwait" => ~RowLockedByOther(r, Min(Remaining(r)))

C2_OneWinner ==
  SameSeatSet =>
    /\ (\A r \in Reqs : Seen(r)) =>
         /\ Cardinality({r \in Reqs : resp[r].status = 201}) = 1
         /\ \A r \in Reqs : resp[r].status \in {201, 409}
    /\ (\E r \in Reqs : pc[r] \notin {"idle", "done"}) => \E r \in Reqs : CanStep(r)
    /\ \A r \in Reqs : Seen(r) => resp[r].status \in {201, 409}

\* all requests named the same two seats, one was blocked on the seat lock
\* meanwhile, and all have been answered
C2_Witness ==
  /\ SameSeatSet
  /\ \A r \in Reqs : Seen(r) /\ Len(input[r].seat_ids) = 2
  /\ \E r \in Reqs : resp[r].error = "serialization"

\* the requested seats another attempt has booked
Contested(r) ==
  {s \in Range(input[r].seat_ids) : seats[s].status = "BOOKED" /\ seats[s].writer # r}

\* C3: every attempt that loses a contested seat, also one that was blocked
\* on the seat lock while the winner committed, is answered 409 with an
\* unavailable-seat list naming each contested seat.
C3_LosersNameSeats ==
  [][\A r \in Reqs :
       (pc[r] # "done" /\ pc'[r] = "done" /\ WellFormed(r) /\ AllBelong(r)
          /\ Contested(r) # {})
       => /\ resp'[r].status = 409
          /\ {seat_number(s) : s \in Contested(r)} \subseteq Range(resp'[r].unavailable_seats)]_vars

\* C4: in every committed state a seat is BOOKED if and only if exactly one
\* CONFIRMED booking lists it.
C4_BookedIffConfirmed ==
  \A s \in SeatIds :
    seats[s].status = "BOOKED" <=> Cardinality(ConfirmedListing(s)) = 1

\* a two-seat booking is committed next to a seat that is still free, after a
\* refused attempt and an expiry job
C4_Witness ==
  /\ \E b \in bookings : Len(b.seat_ids) = 2
  /\ \E s \in SeatIds : seats[s].status = "AVAILABLE"
  /\ \E r \in Reqs : resp[r].status = 409
  /\ SweepRan

LivePending(s) ==
  {b \in bookings : b.status = "PENDING" /\ ~(b.expires_at < now) /\ s \in Range(b.seat_ids)}

\* C5: in every committed state a seat is RESERVED if and only if exactly
\* one PENDING, non-expired booking lists it.
C5_ReservedIffPending ==
  \A s \in SeatIds :
    seats[s].status = "RESERVED" <=> Cardinality(LivePending(s)) = 1

\* a transaction holds a seat RESERVED under a PENDING row that it has not
\* committed, next to a committed booking, while the clock and the job run
C5_Witness ==
  /\ \E r \in Reqs, s \in SeatIds :
       /\ wseats[r][s] = "RESERVED" /\ wbooking[r].status = "PENDING"
       /\ seats[s].status = "AVAILABLE"
  /\ bookings # {}
  /\ SweepRan
  /\ now > 0

\* C6: a committed BOOKED status is permanent: no step changes the row of a
\* BOOKED seat or the CONFIRMED booking that lists it.
C6_BookedPermanent ==
  [][\A s \in SeatIds :
       seats[s].status = "BOOKED"
       => /\ seats'[s] = seats[s]
          /\ {b \in bookings' : b.status = "CONFIRMED" /\ s \in Range(b.seat_ids)}
               = ConfirmedListing(s)]_vars

\* a later attempt at a BOOKED seat has been refused and an expiry job has run
C6_Witness ==
  \E r \in Reqs, s \in SeatIds :
    /\ seats[s].status = "BOOKED" /\ seats[s].writer # r
    /\ s \in Range(input[r].seat_ids)
    /\ resp[r].error = "conflict"
    /\ SweepRan

RowsOf(r) == {b \in bookings : b.user_email = r}

C8_FailureLeavesNothing ==
  \A r \in Reqs :
    (Seen(r) /\ resp[r].status # 201) =>
      /\ RowsOf(r) = {}
      /\ \A s \in SeatIds : seats[s].writer # r

\* C9: a request naming a seat id outside the declared show is answered with
\* the seat-mismatch error, and changes no seat and creates no ledger row.
C9_MismatchRejected ==
  \A r \in Reqs :
    (Seen(r) /\ WellFormed(r) /\ ~AllBelong(r)) =>
      /\ resp[r].error = "mismatch"
      /\ RowsOf(r) = {}
      /\ \A s \in SeatIds : seats[s].writer # r

NotAvailable(r) ==
  {s \in Range(input[r].seat_ids) : seats[s].status # "AVAILABLE"}

\* C10: when the locked seats all belong to the show and one of them is not
\* AVAILABLE, the attempt rolls back and is answered 409 with a list that is
\* exactly the seat numbers of the requested seats that are not AVAILABLE.
C10_ConflictListExact ==
  [][\A r \in Reqs :
       (pc[r] = "check" /\ pc'[r] # "check" /\ WellFormed(r) /\ AllBelong(r)
          /\ NotAvailable(r) # {})
       => /\ resp'[r].status = 409
          /\ Range(resp'[r].unavailable_seats) = {seat_number(s) : s \in NotAvailable(r)}
          /\ Len(resp'[r].unavailable_seats) = Cardinality(NotAvailable(r))
          /\ \A s \in SeatIds : lock'[s] # r
          /\ seats' = seats /\ bookings' = bookings]_vars

\* a conflict list that leaves out the requested seat that was free, and one
\* for a seat whose number is not its id
C10_Witness ==
  /\ \E r \in Reqs :
       /\ resp[r].error = "conflict" /\ Len(input[r].seat_ids) = 2
       /\ Len(resp[r].unavailable_seats) = 1
  /\ \E s \in SeatIds : seats[s].status = "BOOKED"

\* C11: every 409 response carries a non-empty list of the seat numbers that
\* caused it, whether it comes from the availability check or from a
\* serialization failure of the store.
C11_ConflictNamesSeats ==
  \A r \in Reqs : resp[r].status = 409 => Len(resp[r].unavailable_seats) > 0

\* the handler holds nothing of the store: no lock, no row read, no write
NoStoreActivity(r) ==
  /\ rows[r] = <<>> /\ bid[r] = 0
  /\ wseats[r] = NoWrites /\ wbooking[r] = NoRow
  /\ \A s \in SeatIds : lock[s] # r /\ seats[s].writer # r
  /\ RowsOf(r) = {}

\* C12: a request whose seat list is empty or has more than 10 entries is
\* answered with the validation error in its first step, before any
\* transaction or lock: the store is untouched by it, then and ever after.
C12_ValidationFirst ==
  \A r \in Reqs :
    (pc[r] # "idle" /\ (Len(input[r].seat_ids) = 0
                         \/ Len(input[r].seat_ids) > MaxSeatsPerBooking))
    => /\ pc[r] = "done"
       /\ resp[r].status = 400 /\ resp[r].error = "validation"
       /\ NoStoreActivity(r)

\* an 11-entry request and an empty one have both been refused
C12_Witness ==
  \E r, q \in Reqs :
    /\ Len(input[r].seat_ids) = MaxSeatsPerBooking + 1 /\ resp[r].error = "validation"
    /\ pc[q] = "done" /\ Len(input[q].seat_ids) = 0 /\ resp[q].error = "validation"

\* C13: a request listing duplicate or out-of-order seat ids is treated as
\* its set of ids: when the seats of that set all belong to the show and are
\* AVAILABLE once locked, the attempt goes on to book them.
C13_NormalizedBooking ==
  [][\A r \in Reqs :
       (pc[r] = "check" /\ pc'[r] # "check"
          /\ Len(input[r].seat_ids) \in 1..MaxSeatsPerBooking
          /\ AllBelong(r) /\ NotAvailable(r) = {})
       => pc'[r] = "reserve"]_vars

\* a step of expiry job w
SweepStep(w) ==
  <<spc[w], sfound[w], slog[w], swrite[w], sret[w]>>'
    # <<spc[w], sfound[w], slog[w], swrite[w], sret[w]>>

\* C14: no step of an expiry job, however it interleaves with booking
\* attempts, changes the row of a seat that is BOOKED or a booking that is
\* CONFIRMED.
C14_SweepSparesBooked ==
  [][\A w \in Sweeps :
       SweepStep(w)
       => /\ \A s \in SeatIds : seats[s].status = "BOOKED" => seats'[s] = seats[s]
          /\ \A b \in bookings : b.status = "CONFIRMED" => b \in bookings']_vars

\* an attempt booked a seat that an expired PENDING row also lists, and the
\* job then failed that row and committed: the seat is still BOOKED
C14_Witness ==
  \E r \in Reqs, w \in Sweeps, s \in SeatIds, b \in bookings :
    /\ resp[r].status = 201 /\ seats[s].status = "BOOKED" /\ seats[s].writer = r
    /\ b.status = "FAILED" /\ s \in Range(b.seat_ids)
    /\ b \in {FailRow(c) : c \in sfound[w]}
    /\ slog[w] = "Successfully expired bookings"

\* the job's transaction commits its work
SweepCommits(w) == spc[w] = "commit" /\ spc'[w] = "idle"

ListedBy(B) == UNION {Range(b.seat_ids) : b \in B}

\* C15: the job works on exactly the bookings that are PENDING with their
\* expiry in the past when it scans; when it commits, each of them is FAILED
\* and otherwise as before, every other booking is unchanged, every seat they
\* list that is RESERVED becomes AVAILABLE, and no other seat changes status.
C15_SweepEffect ==
  [][\A w \in Sweeps :
       /\ (spc[w] = "idle" /\ SweepStep(w))
          => sfound'[w] = {b \in bookings : b.status = "PENDING" /\ b.expires_at < now}
       /\ SweepCommits(w)
          => /\ sfound[w] \subseteq bookings
             /\ bookings' = (bookings \ sfound[w])
                              \cup {[b EXCEPT !.status = "FAILED"] : b \in sfound[w]}
             /\ \A s \in SeatIds :
                  seats'[s].status =
                    IF s \in ListedBy(sfound[w]) /\ seats[s].status = "RESERVED"
                    THEN "AVAILABLE" ELSE seats[s].status]_vars

\* a committed job failed one booking and released its seat, next to a PENDING
\* booking not yet due, a CONFIRMED one and a seat that stayed BOOKED
C15_Witness ==
  \E w \in Sweeps :
    /\ slog[w] = "Successfully expired bookings"
    /\ \E b \in bookings, s \in SeatIds :
         /\ b.status = "FAILED" /\ s \in Range(b.seat_ids)
         /\ seats[s].status = "AVAILABLE" /\ seats[s].writer = w
    /\ \E b \in bookings : b.status = "PENDING"
    /\ \E b \in bookings : b.status = "CONFIRMED"
    /\ \E s \in SeatIds : seats[s].status = "BOOKED"

\* the bookings a scan is to find, by the fields of the rows
Eligible(B, t) == {b \in B : b.status = "PENDING" /\ b.expires_at < t}

\* C16: a booking the job has expired is not eligible again, so that a run
\* right after a committed run finds none of them; and a run that finds no
\* eligible booking changes no booking and no seat, holds nothing, and ends
\* with the empty-run log line.
C16_SecondRunNoOp ==
  [][\A w \in Sweeps :
       /\ SweepCommits(w)
          => /\ {b.id : b \in Eligible(bookings', now')} \cap {b.id : b \in sfound[w]} = {}
             /\ (Eligible(bookings, now) \subseteq sfound[w]
                   => Eligible(bookings', now') = {})
       /\ (spc[w] = "idle" /\ SweepStep(w) /\ Eligible(bookings, now) = {})
          => /\ spc'[w] = "idle" /\ slog'[w] = "No expired bookings found."
             /\ sfound'[w] = {}
             /\ UNCHANGED <<seats, bookings, lock, block>>]_vars

\* one job has committed the expiry of a booking and a run after it, with
\* bookings on the ledger, found nothing
C16_Witness ==
  \E w, v \in Sweeps :
    /\ w # v
    /\ slog[w] = "Successfully expired bookings" /\ sfound[w] # {}
    /\ slog[v] = "No expired bookings found."
    /\ \A b \in sfound[w] : FailRow(b) \in bookings

C18_ReturnsCount ==
  \A w \in Sweeps :
    sret[w].settled = "resolved"
    => sret[w].defined /\ sret[w].value = Cardinality(sfound[w])

C20_AttemptsTerminate ==
  \A r \in Reqs : (pc[r] # "idle") ~> (pc[r] = "done")

\* two attempts name the same two seats in opposite orders and one of them
\* waits for a row lock the other holds
C20_Witness ==
  \E r, q \in Reqs :
    /\ input[r].seat_ids = <<1, 2>> /\ input[q].seat_ids = <<2, 1>>
    /\ input[r].showId = 1 /\ input[q].showId = 1
    /\ (pc[r] = "lockwait" \/ pc[q] = "lockwait")

\* C21: an attempt whose store call failed is answered 409 when the failure
\* is a serialization failure (40001) and 500 for every other failure, once
\* and without another try, and by then its transaction is rolled back: it
\* holds no lock and nothing it wrote is in the committed store.
C21_FailureTranslated ==
  \A r \in Reqs :
    (Seen(r) /\ errcode[r] # "none")
    => /\ resp[r].status = IF errcode[r] = "40001" THEN 409 ELSE 500
       /\ resp[r].error = IF errcode[r] = "40001" THEN "serialization" ELSE "server"
       /\ \A s \in SeatIds : lock[s] # r /\ seats[s].writer # r
       /\ wseats[r] = NoWrites /\ wbooking[r] = NoRow
       /\ RowsOf(r) = {}

C24_StatusAdvances ==
  [][/\ \A b \in bookings :
          /\ \E c \in bookings' : c.id = b.id
          /\ \A c \in bookings' :
               c.id = b.id
               => \/ c.status = b.status
                  \/ /\ b.status = "PENDING" /\ c.status \in {"CONFIRMED", "FAILED"}
                     /\ c.status = "FAILED" => \E w \in Sweeps : SweepCommits(w)
     /\ \A r \in Reqs :
          /\ wbooking[r].status = "CONFIRMED"
             => wbooking'[r].status \in {"CONFIRMED", "NONE"}
          /\ wbooking[r].status = "PENDING"
             => wbooking'[r].status \in {"PENDING", "CONFIRMED", "NONE"}]_vars

\* the job has failed a booking, an attempt has confirmed its own, and a
\* CONFIRMED booking whose expiry time has passed is still CONFIRMED after
\* the job committed
C24_Witness ==
  /\ \E b \in bookings : b.status = "FAILED"
  /\ \E r \in Reqs : resp[r].status = 201 /\ \E b \in RowsOf(r) : b.status = "CONFIRMED"
  /\ \E b \in bookings : b.status = "CONFIRMED" /\ b.expires_at < now
  /\ \E w \in Sweeps : slog[w] = "Successfully expired bookings"

\* C25: every committed booking that is CONFIRMED or FAILED has a null
\* expiry time.
C25_ExpiryOnlyWhilePending ==
  \A b \in bookings : b.status \in {"CONFIRMED", "FAILED"} => b.expires_at = Null

\* C26: every committed booking row lists between 1 and 10 seats, no seat
\* twice, and only seats of its declared show.
C26_LedgerRowsWellFormed ==
  \A b \in bookings :
    /\ Len(b.seat_ids) \in 1..MaxSeatsPerBooking
    /\ Distinct(b.seat_ids)
    /\ \A s \in Range(b.seat_ids) : show_id(s) = b.show_id

\* a two-seat row is committed, and a request with a duplicate or with a seat
\* of another show has been refused
C26_Witness ==
  /\ \E b \in bookings : Len(b.seat_ids) = 2
  /\ \E r \in Reqs :
       /\ resp[r].error = "mismatch"
       /\ ~Distinct(input[r].seat_ids) \/ ~AllBelong(r)

\* a booking handler is between its BEGIN and its COMMIT or ROLLBACK
InTxn(r) ==
  \/ pc[r] \in {"lockwait", "check", "reserve", "insert", "confirm", "book", "commit"}
  \/ pc[r] = "catch" /\ RowsOf(r) = {}

\* transaction t has acquired the row lock of seat s and has not ended: a
\* handler by the rows its SELECT ... FOR UPDATE returned or passed, a job by
\* the rows its UPDATEs changed
Holds(t, s) ==
  IF t \in Reqs
  THEN InTxn(t) /\ s \in RowIds(rows[t])
  ELSE spc[t] \in {"release", "commit"} /\ s \in swrite[t].released

WritesUnderLock ==
  /\ \A r \in Reqs, s \in SeatIds :
       wseats[r][s] # "NONE" => lock[s] = r /\ s \in RowIds(rows[r])
  /\ \A w \in Sweeps, s \in SeatIds :
       s \in swrite[w].released => lock[s] = w /\ seats[s].status = "RESERVED"

\* a committed seat row changes only by the transaction that holds its lock
CommitsUnderLock ==
  \A s \in SeatIds :
    seats'[s] # seats[s] => lock[s] \in Txns /\ seats'[s].writer = lock[s]

\* C28: every seat-status write, by a booking attempt or by the expiry job,
\* is made by a transaction that holds the lock of that seat and read its
\* status under the lock, and no seat outside the locked set is written.
C28_WritesHoldLock ==
  [][WritesUnderLock /\ WritesUnderLock' /\ CommitsUnderLock]_vars

\* a booking attempt and an expiry job both have uncommitted seat writes
C28_Witness ==
  \E r \in Reqs, w \in Sweeps, s, t \in SeatIds :
    /\ wseats[r][s] = "BOOKED"
    /\ t \in swrite[w].released

\* C29: once an attempt is answered it holds no seat lock and has no open
\* write; after a validation, mismatch or availability failure nothing of it
\* is in the committed store.
C29_NoLockOutlivesResponse ==
  \A r \in Reqs :
    Seen(r)
    => /\ \A s \in SeatIds : lock[s] # r
       /\ wseats[r] = NoWrites /\ wbooking[r] = NoRow
       /\ resp[r].error \in {"validation", "mismatch", "conflict"}
          => RowsOf(r) = {} /\ \A s \in SeatIds : seats[s].writer # r

\* an attempt that had locked a seat was refused, and another attempt now
\* holds the lock of that seat
C29_Witness ==
  \E r, q \in Reqs, s \in SeatIds :
    /\ Seen(r) /\ resp[r].error \in {"mismatch", "conflict"}
    /\ s \in RowIds(rows[r])
    /\ q # r /\ lock[s] = q

\* the committed store never shows half of a job's work
SweepConsistent ==
  /\ \A b \in bookings :
       b.status = "FAILED" => \A s \in Range(b.seat_ids) : seats[s].status # "RESERVED"
  /\ \A s \in SeatIds :
       seats[s].writer \in Sweeps
       => \E b \in bookings : b.status = "FAILED" /\ s \in Range(b.seat_ids)

\* the job's promise is rejected in this step
SweepFailsNow(w) == SweepStep(w) /\ slog'[w] = "Error in expiration job"

\* C30: when a statement of the expiry job fails, the step that surfaces the
\* error leaves the committed store as it was and the job with no lock and no
\* pending write; and no committed state has a FAILED booking with a listed
\* seat still RESERVED, or a seat released for a booking that is not FAILED.
C30_SweepAllOrNothing ==
  [][/\ SweepConsistent /\ SweepConsistent'
     /\ \A w \in Sweeps :
          SweepFailsNow(w)
          => /\ seats' = seats /\ bookings' = bookings
             /\ \A s \in SeatIds : lock'[s] # w
             /\ \A p \in block' : p[2] # w
             /\ swrite'[w] = NoSweepWrites]_vars

\* a job failed after it had marked its bookings and released a seat, and the
\* ledger still has the booking PENDING and the seat RESERVED; the other job
\* has committed nothing
C30_Witness ==
  \E w \in Sweeps, b \in bookings, s \in SeatIds :
    /\ sret[w] = Rejected /\ b \in sfound[w]
    /\ b.status = "PENDING" /\ s \in Range(b.seat_ids)
    /\ seats[s].status = "RESERVED"
    /\ faults = MaxFaults

\* the committed seat rows of a show created through the admin route
CreatedSeats(sh) == {x \in dseats : x.show_id = sh}

\* C22: once an admin request for a show of N seats is answered 201, the show
\* is in the committed store with exactly N seats, all AVAILABLE, numbered
\* 1..N without gap or duplicate.
C22_NewShowHasItsSeats ==
  \A a \in Admins :
    aresp[a] = 201
    => /\ \E x \in dshows : x.id = ashow[a] /\ x.total_seats = ainput[a]
       /\ {x.seat_number : x \in CreatedSeats(ashow[a])} = 1..ainput[a]
       /\ Cardinality(CreatedSeats(ashow[a])) = ainput[a]
       /\ \A x \in CreatedSeats(ashow[a]) : x.status = "AVAILABLE"

\* no admin request is between its arrival and its response
AdminQuiet == \A a \in Admins : apc[a] \in {"idle", "done"}

\* the show of request a is committed with all its seats, or not at all
ShowWhole(a) ==
  \/ /\ \E x \in dshows : x.id = ashow[a]
     /\ CreatedSeats(ashow[a]) = SeatRows(ashow[a], ainput[a])
  \/ /\ ~ \E x \in dshows : x.id = ashow[a]
     /\ CreatedSeats(ashow[a]) = {}

\* C31: once the admin requests are answered, every show one of them
\* inserted is committed together with all its total_seats seats or is
\* absent with all its seats, and no pooled connection is left inside an
\* open transaction.
C31_ShowCreationAtomic ==
  AdminQuiet
  => /\ \A a \in Admins : ashow[a] # 0 => ShowWhole(a)
     /\ \A c \in Clients : ctx[c].state # "open"

\* the caller is between getClient and the end of its transaction
InTransaction(h) == hpc[h] \in {"begin", "query", "end"}

\* the caller has its client and has not yet run its finally block
HasClient(h) == hpc[h] \in {"begin", "query", "end", "release"}

\* the client is in the pool's idle list
IsIdle(c) == \E i \in 1..Len(cidle) : cidle[i] = c

\* C32: a client taken with getClient goes back to the pool once and only
\* after its caller's transaction has ended, and no two callers ever work on
\* the same client or inside the same open transaction, the checkout timer
\* included.
C32_ClientReturnedOnceAfterEnd ==
  \* no client is idle in the pool while its caller's transaction is unfinished
  /\ \A h \in Holders : InTransaction(h) => ~IsIdle(hclient[h])
  \* no two callers work on the same client
  /\ \A h, g \in Holders :
       h # g /\ HasClient(h) /\ HasClient(g) => hclient[h] # hclient[g]
  \* no two callers have statements inside the same open transaction
  /\ \A c \in Clients : Cardinality(cby[c]) <= 1
  \* no release is called a second time
  /\ \A h \in Holders : ~hthrew[h]

\* the handler of request r has run to its end
Ended(r) == pc[r] \in {"done", "rejected"}

\* C33: every booking request whose handler has run to its end has been
\* sent a response, also when the checkout of the client fails, when the
\* ROLLBACK of the catch block fails and when a statement fails after COMMIT.
C33_EveryRequestAnswered ==
  \A r \in Reqs : Ended(r) => resp[r].status # 0

\* the seats a booking attempt may change: those it names, in the show it names
Named(r, s) == s \in Range(input'[r].seat_ids) /\ show_id(s) = input'[r].showId

C35_MessageNamesReportedSeats ==
  message.text = "unavailable" => message.seats = response.unavailable_seats

====
